---- MODULE Spec2Model ----
(***************************************************************************)
(* A model of piot/seq-map: SeqMap<K, V>, an insertion-ordered map made of *)
(* a HashMap<K, usize> (key_to_index) and a Vec<(K, V)> (entries).         *)
(*                                                                         *)
(* Offsets are zero-based as in the Rust code; TLA+ sequences are          *)
(* one-based, so the Rust expression entries[i] is At(entries, i).         *)
(***************************************************************************)
EXTENDS Integers, Sequences, FiniteSets, TLC

\* ------------------------------------------------------------------ bounds
\* Number of distinct keys the callers use (so a map holds at most NumKeys
\* entries).
NumKeys == 3
\* Longest slice / iterator handed to from, from_iter and extend.
MaxSeq == 2

Keys == 1..NumKeys
\* V is opaque to the map (no trait bound on V in insert/remove/get): two
\* distinguishable values are enough to tell one value from another.
Vals == {11, 12}
Pairs == Keys \X Vals
Slices == UNION {[1..n -> Pairs] : n \in 0..MaxSeq}

\* ------------------------------------------------------- Rust vocabulary
None == <<>>
Some(x) == <<x>>
Ok == "Ok"
KeyAlreadyExists == "KeyAlreadyExists"
Err(e) == e

\* entries[i] with a zero-based offset i
At(s, i) == s[i + 1]

\* --------------------------------------------------------------- HashMap
\* HashMap::insert(key, value): adds the key or overwrites its value
hm_insert(h, k, x) == [y \in (DOMAIN h) \cup {k} |-> IF y = k THEN x ELSE h[y]]
\* HashMap::remove(key)
hm_remove(h, k) == [y \in (DOMAIN h) \ {k} |-> h[y]]
\* HashMap::new()
hm_new == [y \in {} |-> 0]

\* ------------------------------------------------------------------- Vec
\* Vec::remove(index): removes and returns the element at index, shifting
\* all elements after it to the left
vec_remove(s, i) == SubSeq(s, 1, i) \o SubSeq(s, i + 2, Len(s))

\* ---------------------------------------------------------------- SeqMap
\* struct SeqMap { key_to_index, entries }
SeqMap(kti, ents) == [key_to_index |-> kti, entries |-> ents]

new == SeqMap(hm_new, <<>>)

contains_key(m, k) == k \in DOMAIN m.key_to_index

\* insert without the contains_key test: a present key is pushed again
insert_unchecked(m, k, v) ==
    LET ents == Append(m.entries, <<k, v>>)
    IN [map |-> SeqMap(hm_insert(m.key_to_index, k, Len(ents) - 1), ents),
        res |-> Ok]

\* insert that overwrites the value of a present key before it reports it
insert_upsert(m, k, v) ==
    IF contains_key(m, k)
    THEN [map |-> SeqMap(m.key_to_index,
                         [m.entries EXCEPT ![m.key_to_index[k] + 1] = <<k, v>>]),
          res |-> Err(KeyAlreadyExists)]
    ELSE LET ents == Append(m.entries, <<k, v>>)
         IN [map |-> SeqMap(hm_insert(m.key_to_index, k, Len(ents) - 1), ents),
             res |-> Ok]

\* insert that records entries.len() after the push, one past the new entry
insert_off_by_one(m, k, v) ==
    IF contains_key(m, k)
    THEN [map |-> m, res |-> Err(KeyAlreadyExists)]
    ELSE LET ents == Append(m.entries, <<k, v>>)
         IN [map |-> SeqMap(hm_insert(m.key_to_index, k, Len(ents)), ents),
             res |-> Ok]

\* insert that puts the new entry first (entries.insert(0, ..)) and shifts
\* the recorded positions of the others
insert_front(m, k, v) ==
    IF contains_key(m, k)
    THEN [map |-> m, res |-> Err(KeyAlreadyExists)]
    ELSE [map |-> SeqMap(hm_insert([y \in DOMAIN m.key_to_index |->
                                       m.key_to_index[y] + 1], k, 0),
                         <<<<k, v>>>> \o m.entries),
          res |-> Ok]

insert(m, k, v) ==
    IF contains_key(m, k)
    THEN [map |-> m, res |-> Err(KeyAlreadyExists)]
    ELSE LET ents == Append(m.entries, <<k, v>>)
         IN [map |-> SeqMap(hm_insert(m.key_to_index, k, Len(ents) - 1), ents),
             res |-> Ok]

len(m) == Len(m.entries)

is_empty(m) == m.entries = <<>>

keys(m) == [i \in 1..Len(m.entries) |-> m.entries[i][1]]

values(m) == [i \in 1..Len(m.entries) |-> m.entries[i][2]]

iter(m) == [i \in 1..Len(m.entries) |-> <<m.entries[i][1], m.entries[i][2]>>]

get_index(m, k) ==
    IF k \in DOMAIN m.key_to_index THEN Some(m.key_to_index[k]) ELSE None

get(m, k) ==
    IF k \in DOMAIN m.key_to_index
    THEN Some(At(m.entries, m.key_to_index[k])[2])
    ELSE None

\* get_mut that hands out a reference to a copy: the write is lost
get_mut_copy(m, k, w) ==
    IF k \in DOMAIN m.key_to_index
    THEN [map |-> m, res |-> Some(At(m.entries, m.key_to_index[k])[2])]
    ELSE [map |-> m, res |-> None]

\* get_mut(key) followed by the caller's write *r = w through the reference
get_mut(m, k, w) ==
    IF k \in DOMAIN m.key_to_index
    THEN LET index == m.key_to_index[k]
         IN [map |-> SeqMap(m.key_to_index,
                            [m.entries EXCEPT ![index + 1] = <<@[1], w>>]),
             res |-> Some(At(m.entries, index)[2])]
    ELSE [map |-> m, res |-> None]

\* values_mut(): the caller writes ws[i] through the i-th reference yielded
values_mut(m, ws) ==
    SeqMap(m.key_to_index,
           [i \in 1..Len(m.entries) |-> <<m.entries[i][1], ws[i]>>])

\* iter_mut that yields the entries from the back
iter_mut_reversed(m, ws) ==
    SeqMap(m.key_to_index,
           [i \in 1..Len(m.entries) |->
               <<m.entries[i][1], ws[Len(m.entries) + 1 - i]>>])

\* iter_mut(): yields (&K, &mut V); the caller writes ws[i] through the i-th
iter_mut(m, ws) ==
    SeqMap(m.key_to_index,
           [i \in 1..Len(m.entries) |-> <<m.entries[i][1], ws[i]>>])

\* IntoIterator for &mut SeqMap: same traversal as iter_mut
into_iter_mut(m, ws) ==
    SeqMap(m.key_to_index,
           [i \in 1..Len(m.entries) |-> <<m.entries[i][1], ws[i]>>])

\* clear without self.key_to_index.clear()
clear_entries_only(m) == SeqMap(m.key_to_index, <<>>)

clear(m) == SeqMap(hm_new, <<>>)

\* the loop of remove: for k in entries[index + 1..] { if let Some(idx) =
\* key_to_index.get_mut(k) { *idx -= 1 } }
RECURSIVE reindex(_, _)
reindex(kti, tail) ==
    IF tail = <<>> THEN kti
    ELSE LET k == Head(tail)[1]
         IN reindex(IF k \in DOMAIN kti THEN [kti EXCEPT ![k] = @ - 1] ELSE kti,
                    Tail(tail))

\* remove whose loop runs over all of entries, not over entries[index + 1..]
remove_reindex_all(m, k) ==
    IF k \in DOMAIN m.key_to_index
    THEN LET index == m.key_to_index[k]
         IN [map |-> SeqMap(reindex(hm_remove(m.key_to_index, k), m.entries),
                            vec_remove(m.entries, index)),
             res |-> Some(At(m.entries, index)[2])]
    ELSE [map |-> m, res |-> None]

\* remove without the loop that updates the positions behind the removed
remove_no_reindex(m, k) ==
    IF k \in DOMAIN m.key_to_index
    THEN LET index == m.key_to_index[k]
         IN [map |-> SeqMap(hm_remove(m.key_to_index, k),
                            vec_remove(m.entries, index)),
             res |-> Some(At(m.entries, index)[2])]
    ELSE [map |-> m, res |-> None]

\* remove with Vec::swap_remove: the last entry takes the place of the
\* removed one, and its position is recorded
remove_swap(m, k) ==
    IF k \in DOMAIN m.key_to_index
    THEN LET index == m.key_to_index[k]
             n == Len(m.entries)
             last == m.entries[n]
             kti == hm_remove(m.key_to_index, k)
         IN [map |-> IF index + 1 = n
                     THEN SeqMap(kti, SubSeq(m.entries, 1, n - 1))
                     ELSE SeqMap([kti EXCEPT ![last[1]] = index],
                                 [SubSeq(m.entries, 1, n - 1)
                                     EXCEPT ![index + 1] = last]),
             res |-> Some(At(m.entries, index)[2])]
    ELSE [map |-> m, res |-> None]

\* remove that runs the position update before it looks at the result of
\* the lookup, with offset 0 when the key is absent
remove_reindex_first(m, k) ==
    LET present == k \in DOMAIN m.key_to_index
        index == IF present THEN m.key_to_index[k] ELSE 0
        kti == reindex(hm_remove(m.key_to_index, k),
                       SubSeq(m.entries, index + 2, Len(m.entries)))
    IN IF present
       THEN [map |-> SeqMap(kti, vec_remove(m.entries, index)),
             res |-> Some(At(m.entries, index)[2])]
       ELSE [map |-> SeqMap(kti, m.entries), res |-> None]

remove(m, k) ==
    IF k \in DOMAIN m.key_to_index
    THEN LET index == m.key_to_index[k]
             kti == reindex(hm_remove(m.key_to_index, k),
                            SubSeq(m.entries, index + 2, Len(m.entries)))
         IN [map |-> SeqMap(kti, vec_remove(m.entries, index)),
             res |-> Some(At(m.entries, index)[2])]
    ELSE [map |-> m, res |-> None]

\* drain without self.key_to_index.clear()
drain_keep_index(m, n) ==
    [map |-> SeqMap(m.key_to_index, <<>>), res |-> SubSeq(m.entries, 1, n)]

\* drain(): the index is cleared, entries.drain(..) empties the Vec and
\* yields its elements in order; the caller takes the first n of them
drain(m, n) == [map |-> SeqMap(hm_new, <<>>), res |-> SubSeq(m.entries, 1, n)]

\* extend that stops at the first insert that fails (self.insert(k, v)?)
RECURSIVE extend_stop_on_error(_, _)
extend_stop_on_error(m, it) ==
    IF it = <<>> THEN m
    ELSE LET r == insert(m, Head(it)[1], Head(it)[2])
         IN IF r.res = Ok THEN extend_stop_on_error(r.map, Tail(it)) ELSE m

\* for (k, v) in iter { let _ = self.insert(k, v); }
RECURSIVE extend(_, _)
extend(m, it) ==
    IF it = <<>> THEN m
    ELSE extend(insert(m, Head(it)[1], Head(it)[2]).map, Tail(it))

\* From<&[(K, V)]>: let mut map = SeqMap::new(); for (key, value) in slice
\* { let _ = map.insert(key.clone(), value.clone()); } map
RECURSIVE from_loop(_, _)
from_loop(m, slice) ==
    IF slice = <<>> THEN m
    ELSE from_loop(insert(m, Head(slice)[1], Head(slice)[2]).map, Tail(slice))

\* from in which a later pair replaces the value of an earlier one
RECURSIVE from_last_wins_loop(_, _)
from_last_wins_loop(m, slice) ==
    IF slice = <<>> THEN m
    ELSE from_last_wins_loop(insert_upsert(m, Head(slice)[1], Head(slice)[2]).map,
                             Tail(slice))

from_last_wins(slice) == from_last_wins_loop(new, slice)

from(slice) == from_loop(new, slice)

\* FromIterator: the same loop over an owning iterator
RECURSIVE from_iter_loop(_, _)
from_iter_loop(m, it) ==
    IF it = <<>> THEN m
    ELSE from_iter_loop(insert(m, Head(it)[1], Head(it)[2]).map, Tail(it))

from_iter(it) == from_iter_loop(new, it)

\* equality as a plain map has it: the same pairs in any order
eq_unordered(a, b) ==
    /\ Len(a.entries) = Len(b.entries)
    /\ \A i \in 1..Len(a.entries) :
          \E j \in 1..Len(b.entries) : a.entries[i] = b.entries[j]

\* PartialEq::eq: the lengths are compared first, then the entries pairwise
\* (self.entries.iter().zip(other.entries.iter()).all(|(a, b)| a == b))
eq(a, b) ==
    IF Len(a.entries) # Len(b.entries)
    THEN FALSE
    ELSE \A i \in 1..Len(a.entries) : a.entries[i] = b.entries[i]

\* hash that feeds the keys alone
RECURSIVE hash_keys_only(_, _)
hash_keys_only(m, state) ==
    IF m.entries = <<>> THEN state
    ELSE hash_keys_only(SeqMap(m.key_to_index, Tail(m.entries)),
                        Append(state, Head(m.entries)[1]))

\* Hash::hash: for (key, value) in &self.entries { key.hash(state);
\* value.hash(state); }  The hasher state is the sequence of what was fed.
RECURSIVE hash(_, _)
hash(m, state) ==
    IF m.entries = <<>> THEN state
    ELSE hash(SeqMap(m.key_to_index, Tail(m.entries)),
              Append(Append(state, Head(m.entries)[1]), Head(m.entries)[2]))

\* how a call that returns a plain value ends: with the value, or in a panic
Returned(v) == [panic |-> FALSE, value |-> v]
Panicked == [panic |-> TRUE, value |-> 0]

\* index that falls back to a default value (unwrap_or_default)
index_or_default(m, k) ==
    IF get(m, k) = None THEN Returned(0) ELSE Returned(get(m, k)[1])

\* Index<&K>::index: self.get(key).expect("Key not found in SeqMap")
index(m, k) ==
    IF get(m, k) = None THEN Panicked ELSE Returned(get(m, k)[1])

\* self.entries[index] of get: the index is out of bounds
get_panics(m, k) ==
    /\ k \in DOMAIN m.key_to_index
    /\ ~(m.key_to_index[k] < Len(m.entries))

\* self.entries[index] of get_mut: the index is out of bounds
get_mut_panics(m, k) ==
    /\ k \in DOMAIN m.key_to_index
    /\ ~(m.key_to_index[k] < Len(m.entries))

\* self.entries.len() - 1 of insert, behind the push: below 0
insert_underflows(m, k, v) ==
    /\ ~contains_key(m, k)
    /\ Len(Append(m.entries, <<k, v>>)) - 1 < 0

\* the loop of remove: *idx -= 1 is reached with *idx = 0
RECURSIVE reindex_underflows(_, _)
reindex_underflows(kti, tail) ==
    IF tail = <<>> THEN FALSE
    ELSE LET k == Head(tail)[1]
         IN IF k \in DOMAIN kti
            THEN \/ kti[k] = 0
                 \/ reindex_underflows([kti EXCEPT ![k] = @ - 1], Tail(tail))
            ELSE reindex_underflows(kti, Tail(tail))

\* the loop of remove: key_to_index.get_mut(k) is None for a key of the
\* tail, the decrement is left out
RECURSIVE reindex_skips(_, _)
reindex_skips(kti, tail) ==
    IF tail = <<>> THEN FALSE
    ELSE LET k == Head(tail)[1]
         IN IF k \in DOMAIN kti
            THEN reindex_skips([kti EXCEPT ![k] = @ - 1], Tail(tail))
            ELSE TRUE

\* remove: self.entries[index + 1..] starts behind the end, the decrement
\* underflows, or self.entries.remove(index) is out of bounds
remove_panics(m, k) ==
    /\ k \in DOMAIN m.key_to_index
    /\ LET at == m.key_to_index[k] IN
       \/ at + 1 > Len(m.entries)
       \/ reindex_underflows(hm_remove(m.key_to_index, k),
                             SubSeq(m.entries, at + 2, Len(m.entries)))
       \/ ~(at < Len(m.entries))

\* remove: the loop leaves the decrement out for a key of the tail
remove_skips(m, k) ==
    /\ k \in DOMAIN m.key_to_index
    /\ m.key_to_index[k] + 1 <= Len(m.entries)
    /\ reindex_skips(hm_remove(m.key_to_index, k),
                     SubSeq(m.entries, m.key_to_index[k] + 2, Len(m.entries)))

\* Vec::into_iter: the items of the vector, front to back
vec_into_iter(v) == v

\* Iterator::map with |(k, _)| k
RECURSIVE map_key(_)
map_key(items) ==
    IF items = <<>> THEN <<>> ELSE <<Head(items)[1]>> \o map_key(Tail(items))

\* Iterator::map with |(_, v)| v
RECURSIVE map_value(_)
map_value(items) ==
    IF items = <<>> THEN <<>> ELSE <<Head(items)[2]>> \o map_value(Tail(items))

\* into_iter that takes the entries off the back of the vector
RECURSIVE into_iter_popping(_)
into_iter_popping(m) ==
    IF m.entries = <<>> THEN <<>>
    ELSE <<m.entries[Len(m.entries)]>>
            \o into_iter_popping(SeqMap(m.key_to_index,
                                         SubSeq(m.entries, 1, Len(m.entries) - 1)))

\* IntoIterator for SeqMap: self.entries.into_iter(); the items collected
into_iter(m) == vec_into_iter(m.entries)

\* self.entries.into_iter().map(|(k, _)| k)
into_keys(m) == map_key(vec_into_iter(m.entries))

\* self.entries.into_iter().map(|(_, v)| v)
into_values(m) == map_value(vec_into_iter(m.entries))

\* {key} / {value} / {key:?} / {value:?} of the integer keys and values
fmt(x) == ToString(x)

\* Display::fmt, the loop: write!(f, "\n{key}: {value}") for each entry
RECURSIVE display_loop(_, _)
display_loop(f, ents) ==
    IF ents = <<>> THEN f
    ELSE display_loop(f \o "\n" \o fmt(Head(ents)[1]) \o ": " \o fmt(Head(ents)[2]),
                      Tail(ents))

\* Display::fmt: write!(f, "SeqMap({})", self.entries.len()), then the loop
display(m) ==
    display_loop("SeqMap(" \o fmt(Len(m.entries)) \o ")", m.entries)

\* Debug::fmt, the loop: if !first { write!(f, ", ") } first = false;
\* write!(f, "{key:?}: {value:?}")
RECURSIVE debug_loop(_, _, _)
debug_loop(f, first, ents) ==
    IF ents = <<>> THEN f
    ELSE debug_loop((IF ~first THEN f \o ", " ELSE f)
                        \o fmt(Head(ents)[1]) \o ": " \o fmt(Head(ents)[2]),
                    FALSE, Tail(ents))

\* Debug::fmt that writes the separator behind every entry
RECURSIVE debug_trailing_loop(_, _)
debug_trailing_loop(f, ents) ==
    IF ents = <<>> THEN f
    ELSE debug_trailing_loop(f \o fmt(Head(ents)[1]) \o ": "
                                \o fmt(Head(ents)[2]) \o ", ",
                             Tail(ents))

debug_trailing_separator(m) == debug_trailing_loop("SeqMap(", m.entries) \o ")"

\* Debug::fmt: write!(f, "SeqMap("), the loop, write!(f, ")")
debug(m) == debug_loop("SeqMap(", TRUE, m.entries) \o ")"

\* ---------------------------------------------------------- state machine
VARIABLES
    key_to_index,   \* SeqMap.key_to_index: key -> offset in entries
    entries,        \* SeqMap.entries: sequence of <<key, value>>
    op,             \* the call that has just returned, idle when none is looked at
    arg_key,        \* its key argument (0 when it takes none)
    arg_value,      \* its value argument (0 when it takes none); for drain, the
                    \* number of items the caller takes before it drops the iterator
    arg_seq,        \* its slice / iterator argument (<<>> when it takes none)
    result,         \* what it returned
    old,            \* the map it was called on (new for a constructor)
    assoc,          \* history: key -> Some(value last associated) or None
    inserted,       \* history: the pairs inserted successfully, while insert_only
    insert_only,    \* history: the map was new and only insert was called since
    recent,         \* history: the live keys, in the order of the most recent
                    \* insert of each that returned Ok
    gone,           \* history: Watched when remove has taken it out and the
                    \* caller has not seen it live since, 0 otherwise
    ref,            \* the reference model run side by side: a list of pairs
    ref_result      \* what the reference model returned for insert / remove

vars == <<key_to_index, entries, op, arg_key, arg_value, arg_seq, result, old,
          assoc, inserted, insert_only, recent, gone, ref, ref_result>>

self == SeqMap(key_to_index, entries)

idle == "idle"

\* the pairs of it whose insert returns Ok when the loop of extend / from /
\* from_iter runs on m
RECURSIVE Accepted(_, _)
Accepted(m, it) ==
    IF it = <<>> THEN <<>>
    ELSE LET r == insert(m, Head(it)[1], Head(it)[2])
         IN (IF r.res = Ok THEN <<Head(it)>> ELSE <<>>) \o Accepted(r.map, Tail(it))

\* the association after the pairs of ps have been associated in order
RECURSIVE Associate(_, _)
Associate(a, ps) ==
    IF ps = <<>> THEN a
    ELSE Associate([a EXCEPT ![Head(ps)[1]] = Some(Head(ps)[2])], Tail(ps))

NoAssoc == [k \in Keys |-> None]

\* the key whose removal is remembered: the least one
Watched == CHOOSE k \in Keys : \A j \in Keys : k <= j

\* the keys of the pairs of ps, in order
RECURSIVE KeysOf(_)
KeysOf(ps) == IF ps = <<>> THEN <<>> ELSE <<Head(ps)[1]>> \o KeysOf(Tail(ps))

\* r after an insert of each key of ks, in order, has returned Ok: the key
\* becomes the most recent one
RECURSIVE Stamp(_, _)
Stamp(r, ks) ==
    IF ks = <<>> THEN r
    ELSE Stamp(Append(SelectSeq(r, LAMBDA k : k # Head(ks)), Head(ks)), Tail(ks))

\* r after the inserts of ks, the keys that are not live in m forgotten
Recent(r, ks, m) == SelectSeq(Stamp(r, ks), LAMBDA k : contains_key(m, k))

\* The reference model: a list of <<key, value>> without two pairs of the
\* same key, searched from the front.
\* the place in l of the first pair with key k, 0 when there is none
RECURSIVE ref_find(_, _, _)
ref_find(l, k, i) ==
    IF i > Len(l) THEN 0
    ELSE IF l[i][1] = k THEN i
    ELSE ref_find(l, k, i + 1)

ref_contains_key(l, k) == ref_find(l, k, 1) # 0

ref_get(l, k) ==
    LET i == ref_find(l, k, 1) IN
    IF i = 0 THEN None ELSE Some(l[i][2])

ref_get_index(l, k) ==
    LET i == ref_find(l, k, 1) IN
    IF i = 0 THEN None ELSE Some(i - 1)

ref_insert(l, k, v) ==
    IF ref_find(l, k, 1) # 0
    THEN [list |-> l, res |-> Err(KeyAlreadyExists)]
    ELSE [list |-> Append(l, <<k, v>>), res |-> Ok]

ref_remove(l, k) ==
    LET i == ref_find(l, k, 1) IN
    IF i = 0 THEN [list |-> l, res |-> None]
    ELSE [list |-> SubSeq(l, 1, i - 1) \o SubSeq(l, i + 1, Len(l)),
          res |-> Some(l[i][2])]

ref_clear(l) == <<>>

RECURSIVE ref_extend(_, _)
ref_extend(l, it) ==
    IF it = <<>> THEN l
    ELSE ref_extend(ref_insert(l, Head(it)[1], Head(it)[2]).list, Tail(it))

\* the value of key k set to w, when k is there
ref_write(l, k, w) ==
    LET i == ref_find(l, k, 1) IN
    IF i = 0 THEN l ELSE [l EXCEPT ![i] = <<k, w>>]

\* every value set, the i-th to ws[i]
ref_write_all(l, ws) == [i \in 1..Len(l) |-> <<l[i][1], ws[i]>>]

Init ==
    /\ key_to_index = new.key_to_index
    /\ entries = new.entries
    /\ op = idle
    /\ arg_key = 0
    /\ arg_value = 0
    /\ arg_seq = <<>>
    /\ result = None
    /\ old = new
    /\ assoc = NoAssoc
    /\ inserted = <<>>
    /\ insert_only = FALSE
    /\ recent = <<>>
    /\ gone = 0
    /\ ref = <<>>
    /\ ref_result = None

Insert(k, v) ==
    LET r == insert(self, k, v) IN
    /\ key_to_index' = r.map.key_to_index
    /\ entries' = r.map.entries
    /\ op' = "insert"
    /\ arg_key' = k
    /\ arg_value' = v
    /\ arg_seq' = <<>>
    /\ result' = r.res
    /\ old' = self
    /\ assoc' = IF r.res = Ok THEN [assoc EXCEPT ![k] = Some(v)] ELSE assoc
    /\ inserted' = IF insert_only /\ r.res = Ok
                   THEN Append(inserted, <<k, v>>) ELSE inserted
    /\ recent' = Recent(recent, IF r.res = Ok THEN <<k>> ELSE <<>>, r.map)
    /\ UNCHANGED <<insert_only, gone>>
    /\ ref' = ref_insert(ref, k, v).list
    /\ ref_result' = ref_insert(ref, k, v).res

Remove(k) ==
    LET r == remove(self, k) IN
    /\ key_to_index' = r.map.key_to_index
    /\ entries' = r.map.entries
    /\ op' = "remove"
    /\ arg_key' = k
    /\ arg_value' = 0
    /\ arg_seq' = <<>>
    /\ result' = r.res
    /\ old' = self
    /\ assoc' = [assoc EXCEPT ![k] = None]
    /\ inserted' = <<>>
    /\ insert_only' = FALSE
    /\ recent' = Recent(recent, <<>>, r.map)
    /\ gone' = IF r.res # None /\ k = Watched THEN k ELSE gone
    /\ ref' = ref_remove(ref, k).list
    /\ ref_result' = ref_remove(ref, k).res

Clear ==
    LET m == clear(self) IN
    /\ key_to_index' = m.key_to_index
    /\ entries' = m.entries
    /\ op' = "clear"
    /\ arg_key' = 0
    /\ arg_value' = 0
    /\ arg_seq' = <<>>
    /\ result' = None
    /\ old' = self
    /\ assoc' = NoAssoc
    /\ inserted' = <<>>
    /\ insert_only' = FALSE
    /\ recent' = Recent(recent, <<>>, m)
    /\ UNCHANGED gone
    /\ ref' = ref_clear(ref)
    /\ ref_result' = None

Drain(n) ==
    LET r == drain(self, n) IN
    /\ key_to_index' = r.map.key_to_index
    /\ entries' = r.map.entries
    /\ op' = "drain"
    /\ arg_key' = 0
    /\ arg_value' = n
    /\ arg_seq' = <<>>
    /\ result' = r.res
    /\ old' = self
    /\ assoc' = NoAssoc
    /\ inserted' = <<>>
    /\ insert_only' = FALSE
    /\ recent' = Recent(recent, <<>>, r.map)
    /\ UNCHANGED gone
    /\ ref' = ref_clear(ref)
    /\ ref_result' = None

GetMut(k, w) ==
    LET r == get_mut(self, k, w) IN
    /\ key_to_index' = r.map.key_to_index
    /\ entries' = r.map.entries
    /\ op' = "get_mut"
    /\ arg_key' = k
    /\ arg_value' = w
    /\ arg_seq' = <<>>
    /\ result' = r.res
    /\ old' = self
    /\ assoc' = IF r.res # None THEN [assoc EXCEPT ![k] = Some(w)] ELSE assoc
    /\ inserted' = <<>>
    /\ insert_only' = FALSE
    /\ recent' = Recent(recent, <<>>, r.map)
    /\ UNCHANGED gone
    /\ ref' = ref_write(ref, k, w)
    /\ ref_result' = None

\* the association after ws[i] was written through the i-th reference of a
\* mutable traversal of the entries
Written(ws) ==
    [k \in Keys |->
        IF \E i \in 1..Len(entries) : entries[i][1] = k
        THEN Some(ws[CHOOSE i \in 1..Len(entries) : entries[i][1] = k])
        ELSE assoc[k]]

Traverse(name, m, ws) ==
    /\ key_to_index' = m.key_to_index
    /\ entries' = m.entries
    /\ op' = name
    /\ arg_key' = 0
    /\ arg_value' = 0
    /\ arg_seq' = ws
    /\ result' = None
    /\ old' = self
    /\ assoc' = Written(ws)
    /\ inserted' = <<>>
    /\ insert_only' = FALSE
    /\ recent' = Recent(recent, <<>>, m)
    /\ UNCHANGED gone
    /\ ref' = ref_write_all(ref, ws)
    /\ ref_result' = None

ValuesMut(ws) == Traverse("values_mut", values_mut(self, ws), ws)

IterMut(ws) == Traverse("iter_mut", iter_mut(self, ws), ws)

IntoIterMut(ws) == Traverse("into_iter_mut", into_iter_mut(self, ws), ws)

Extend(it) ==
    LET m == extend(self, it)
        accepted == Accepted(self, it)
    IN
    /\ key_to_index' = m.key_to_index
    /\ entries' = m.entries
    /\ op' = "extend"
    /\ arg_key' = 0
    /\ arg_value' = 0
    /\ arg_seq' = it
    /\ result' = None
    /\ old' = self
    /\ assoc' = Associate(assoc, accepted)
    /\ inserted' = <<>>
    /\ insert_only' = FALSE
    /\ recent' = Recent(recent, KeysOf(accepted), m)
    /\ UNCHANGED gone
    /\ ref' = ref_extend(ref, it)
    /\ ref_result' = None

Construct(name, m, it) ==
    LET accepted == Accepted(new, it) IN
    /\ key_to_index' = m.key_to_index
    /\ entries' = m.entries
    /\ op' = name
    /\ arg_key' = 0
    /\ arg_value' = 0
    /\ arg_seq' = it
    /\ result' = None
    /\ old' = new
    /\ assoc' = Associate(NoAssoc, accepted)
    /\ inserted' = <<>>
    /\ insert_only' = FALSE
    /\ recent' = Recent(<<>>, KeysOf(accepted), m)
    /\ gone' = 0
    /\ ref' = ref_extend(<<>>, it)
    /\ ref_result' = None

From(slice) == Construct("from", from(slice), slice)

FromIter(it) == Construct("from_iter", from_iter(it), it)

\* the entries a map can hold: no key twice
EntryLists == {s \in Slices : Cardinality({s[i][1] : i \in 1..Len(s)}) = Len(s)}

\* self == other, where other is the map that holds the entries it (the map
\* collected from it)
Eq(it) ==
    /\ op' = "eq"
    /\ arg_key' = 0
    /\ arg_value' = 0
    /\ arg_seq' = it
    /\ result' = eq(self, from_iter(it))
    /\ old' = self
    /\ inserted' = <<>>
    /\ insert_only' = FALSE
    /\ ref_result' = None
    /\ UNCHANGED <<key_to_index, entries, assoc, recent, gone, ref>>

\* self.hash(&mut hasher) with a fresh hasher
Hash ==
    /\ op' = "hash"
    /\ arg_key' = 0
    /\ arg_value' = 0
    /\ arg_seq' = <<>>
    /\ result' = hash(self, <<>>)
    /\ old' = self
    /\ inserted' = <<>>
    /\ insert_only' = FALSE
    /\ ref_result' = None
    /\ UNCHANGED <<key_to_index, entries, assoc, recent, gone, ref>>

\* map[&k]
Index(k) ==
    /\ op' = "index"
    /\ arg_key' = k
    /\ arg_value' = 0
    /\ arg_seq' = <<>>
    /\ result' = index(self, k)
    /\ old' = self
    /\ inserted' = <<>>
    /\ insert_only' = FALSE
    /\ ref_result' = None
    /\ UNCHANGED <<key_to_index, entries, assoc, recent, gone, ref>>

\* a call that reads the map and returns text
Render(name, text) ==
    /\ op' = name
    /\ arg_key' = 0
    /\ arg_value' = 0
    /\ arg_seq' = <<>>
    /\ result' = text
    /\ old' = self
    /\ inserted' = <<>>
    /\ insert_only' = FALSE
    /\ ref_result' = None
    /\ UNCHANGED <<key_to_index, entries, assoc, recent, gone, ref>>

\* map.to_string() / format!("{}", map)
Display == Render("display", display(self))

\* format!("{:?}", map)
Debug == Render("debug", debug(self))

\* A call that takes the map by value: the map is moved into the iterator
\* and is gone with it. The caller has no map left; the one the next calls
\* go to is a new one.
Consume(name, items) ==
    /\ key_to_index' = new.key_to_index
    /\ entries' = new.entries
    /\ op' = name
    /\ arg_key' = 0
    /\ arg_value' = 0
    /\ arg_seq' = <<>>
    /\ result' = items
    /\ old' = self
    /\ assoc' = NoAssoc
    /\ inserted' = <<>>
    /\ insert_only' = FALSE
    /\ recent' = <<>>
    /\ gone' = 0
    /\ ref' = <<>>
    /\ ref_result' = None

IntoIter == Consume("into_iter", into_iter(self))

IntoKeys == Consume("into_keys", into_keys(self))

IntoValues == Consume("into_values", into_values(self))

\* The caller is done with the call that returned: its record is dropped.
\* The map itself is not touched. The map is used through &mut self, one
\* call at a time, so the next call starts from here.
Idle ==
    /\ op # idle
    /\ op' = idle
    /\ arg_key' = 0
    /\ arg_value' = 0
    /\ arg_seq' = <<>>
    /\ result' = None
    /\ old' = new
    /\ gone' = IF gone # 0 /\ contains_key(self, gone) THEN 0 ELSE gone
    /\ ref_result' = None
    /\ UNCHANGED <<key_to_index, entries, assoc, inserted, insert_only, recent,
                   ref>>

\* One call of an operation with any arguments, once the caller is done with
\* the call before it; or the caller's step to its next call. from and
\* from_iter build a map of their own and read nothing of the one at hand:
\* they are taken where the map at hand is as new() made it, which gives
\* the same states as taking them anywhere.
Next ==
    \/ op = idle /\ \E k \in Keys, v \in Vals : Insert(k, v)
    \/ op = idle /\ \E k \in Keys : Remove(k)
    \/ op = idle /\ Clear
    \/ op = idle /\ \E n \in 0..Len(entries) : Drain(n)
    \/ op = idle /\ \E k \in Keys, w \in Vals : GetMut(k, w)
    \/ op = idle /\ \E ws \in [1..Len(entries) -> Vals] : ValuesMut(ws)
    \/ op = idle /\ \E ws \in [1..Len(entries) -> Vals] : IterMut(ws)
    \/ op = idle /\ \E ws \in [1..Len(entries) -> Vals] : IntoIterMut(ws)
    \/ op = idle /\ \E it \in Slices : Extend(it)
    \/ op = idle /\ self = new /\ \E slice \in Slices : From(slice)
    \/ op = idle /\ self = new /\ \E it \in Slices : FromIter(it)
    \/ op = idle /\ \E it \in EntryLists : Eq(it)
    \/ op = idle /\ Hash
    \/ op = idle /\ \E k \in Keys : Index(k)
    \/ op = idle /\ Display
    \/ op = idle /\ Debug
    \/ op = idle /\ IntoIter
    \/ op = idle /\ IntoKeys
    \/ op = idle /\ IntoValues
    \/ Idle

Spec == Init /\ [][Next]_vars

\* A new map on which nothing but insert is called, the successful inserts
\* being logged in inserted.
InitInserts ==
    /\ key_to_index = new.key_to_index
    /\ entries = new.entries
    /\ op = idle
    /\ arg_key = 0
    /\ arg_value = 0
    /\ arg_seq = <<>>
    /\ result = None
    /\ old = new
    /\ assoc = NoAssoc
    /\ inserted = <<>>
    /\ insert_only = TRUE
    /\ recent = <<>>
    /\ gone = 0
    /\ ref = <<>>
    /\ ref_result = None

NextInserts ==
    \/ op = idle /\ \E k \in Keys, v \in Vals : Insert(k, v)
    \/ Idle

SpecInserts == InitInserts /\ [][NextInserts]_vars

\* ------------------------------------------------------------ properties
\* the keys of a sequence of pairs, as a set
KeySet(ps) == {ps[i][1] : i \in 1..Len(ps)}

\* the offset in ps of the pair with key k (k occurs in ps)
OffsetOf(ps, k) == (CHOOSE i \in 1..Len(ps) : ps[i][1] = k) - 1

\* C1: for every key k of key_to_index, the recorded position is an offset
\* of entries and the entry at that offset has key k.
C1_PositionIsOffset ==
    \A k \in DOMAIN key_to_index :
        /\ key_to_index[k] \in 0..(Len(entries) - 1)
        /\ At(entries, key_to_index[k])[1] = k

\* a remove has just shifted the entries behind the removed one to the left
C1_Witness ==
    /\ op = "remove"
    /\ \E k \in DOMAIN key_to_index : key_to_index[k] = old.key_to_index[k] - 1

\* C2: key_to_index and entries hold the same keys, no key occurs twice in
\* entries, and key_to_index has as many keys as entries has elements.
C2_SameKeysNoDuplicates ==
    /\ DOMAIN key_to_index = KeySet(entries)
    /\ \A i, j \in 1..Len(entries) : entries[i][1] = entries[j][1] => i = j
    /\ Cardinality(DOMAIN key_to_index) = Len(entries)

\* an insert of a key that is present was tried on a map of two keys or more
C2_Witness ==
    /\ op = "insert"
    /\ result = Err(KeyAlreadyExists)
    /\ Len(entries) >= 2

\* C3: insert(k, v) on a map that contains k returns Err(KeyAlreadyExists)
\* and leaves the map as it was: same entries in the same order (so the same
\* value for k and the same length) and the same recorded positions.
C3_DuplicateInsertRejected ==
    (op = "insert" /\ contains_key(old, arg_key)) =>
        /\ result = Err(KeyAlreadyExists)
        /\ get(self, arg_key) = get(old, arg_key)
        /\ len(self) = len(old)
        /\ entries = old.entries
        /\ key_to_index = old.key_to_index

\* an insert of a present key with a value other than the stored one
C3_Witness ==
    /\ op = "insert"
    /\ contains_key(old, arg_key)
    /\ get(old, arg_key) # Some(arg_value)

\* C4: insert(k, v) on a map that does not contain k returns Ok, appends
\* (k, v) as the last entry, so that get_index(k) is the length before the
\* call, makes the length one more, and leaves every entry that was present
\* with its key, value and position.
C4_InsertAppends ==
    (op = "insert" /\ ~contains_key(old, arg_key)) =>
        /\ result = Ok
        /\ len(self) = len(old) + 1
        /\ get_index(self, arg_key) = Some(len(old))
        /\ entries[Len(entries)] = <<arg_key, arg_value>>
        /\ get(self, arg_key) = Some(arg_value)
        /\ SubSeq(entries, 1, len(old)) = old.entries
        /\ \A k \in KeySet(old.entries) :
              /\ get_index(self, k) = get_index(old, k)
              /\ get(self, k) = get(old, k)

\* an insert of an absent key into a map of two entries or more whose keys
\* are not in the order a run of inserts alone on ascending keys gives
C4_Witness ==
    /\ op = "insert"
    /\ ~contains_key(old, arg_key)
    /\ len(old) >= 2
    /\ old.entries[1][1] > old.entries[2][1]

\* C5: remove(k) on a map that contains k at offset i returns the value
\* stored for k, makes k absent and the length one less, decrements the
\* recorded offset of every key that was behind i, keeps the offset of every
\* key that was before i, and keeps the other entries' values and order.
C5_RemoveReindexes ==
    (op = "remove" /\ contains_key(old, arg_key)) =>
        LET i == OffsetOf(old.entries, arg_key) IN
        /\ result = Some(At(old.entries, i)[2])
        /\ result = get(old, arg_key)
        /\ ~contains_key(self, arg_key)
        /\ get(self, arg_key) = None
        /\ len(self) = len(old) - 1
        /\ \A k \in KeySet(old.entries) \ {arg_key} :
              LET j == OffsetOf(old.entries, k) IN
              /\ j > i => get_index(self, k) = Some(j - 1)
              /\ j < i => get_index(self, k) = Some(j)
              /\ get(self, k) = get(old, k)
        /\ entries = [n \in 1..(Len(old.entries) - 1) |->
                        IF n <= i THEN old.entries[n] ELSE old.entries[n + 1]]

\* a remove of a key with an entry before it and an entry behind it
C5_Witness ==
    /\ op = "remove"
    /\ contains_key(old, arg_key)
    /\ old.key_to_index[arg_key] > 0
    /\ old.key_to_index[arg_key] < len(old) - 1

\* C6: remove(k) on a map that does not contain k returns None and leaves
\* the map as it was: same entries, same recorded positions, same length.
C6_RemoveAbsentIsNoop ==
    (op = "remove" /\ ~contains_key(old, arg_key)) =>
        /\ result = None
        /\ entries = old.entries
        /\ key_to_index = old.key_to_index
        /\ len(self) = len(old)

\* a remove of an absent key from a map that is not empty
C6_Witness ==
    /\ op = "remove"
    /\ ~contains_key(old, arg_key)
    /\ len(old) >= 1

\* C7: get(k) returns the value last associated with k (by a successful
\* insert or a write through get_mut, values_mut, iter_mut) when k was
\* inserted and not removed, cleared or drained since, and None otherwise.
C7_GetReturnsLastAssociated ==
    \A k \in Keys : get(self, k) = assoc[k]

\* a write through get_mut has replaced the value of a key by another one,
\* while another key is absent
C7_Witness ==
    /\ op = "get_mut"
    /\ result # None
    /\ result # Some(arg_value)
    /\ get(self, arg_key) = Some(arg_value)
    /\ \E k \in Keys : assoc[k] = None

\* C8 (under SpecInserts): after successful inserts with pairwise distinct
\* keys into an empty map and nothing else, keys() and iter() yield the keys
\* in the order of the inserts and values() yields their values in that
\* order.
C8_InsertionOrder ==
    (insert_only /\ Cardinality(KeySet(inserted)) = Len(inserted)) =>
        /\ keys(self) = [i \in 1..Len(inserted) |-> inserted[i][1]]
        /\ values(self) = [i \in 1..Len(inserted) |-> inserted[i][2]]
        /\ iter(self) = inserted

\* three inserts in an order that is not the order of the keys
C8_Witness ==
    /\ op = "insert"
    /\ result = Ok
    /\ insert_only
    /\ Len(inserted) >= 3
    /\ inserted[1][1] > inserted[2][1]

\* the positions of ps that hold the first occurrence of their key
FirstOccurrences(ps) ==
    {i \in 1..Len(ps) : \A j \in 1..(i - 1) : ps[j][1] # ps[i][1]}

\* the pairs of ps at the positions of P, in the order of ps
RECURSIVE Pick(_, _)
Pick(ps, P) ==
    IF P = {} THEN <<>>
    ELSE LET i == CHOOSE x \in P : \A y \in P : x <= y
         IN <<ps[i]>> \o Pick(ps, P \ {i})

FreshIn(m, ps) ==
    {i \in FirstOccurrences(ps) : ps[i][1] \notin KeySet(m.entries)}

\* insert called for each pair of ps in order, the results discarded
RECURSIVE InsertEach(_, _)
InsertEach(m, ps) ==
    IF ps = <<>> THEN m
    ELSE InsertEach(insert(m, ps[1][1], ps[1][2]).map, SubSeq(ps, 2, Len(ps)))

\* C10: extend(seq) keeps every present entry's key, value and position,
\* ignores the pairs whose key is present already (before the call or from
\* an earlier pair of seq) and appends the others in the order of seq; the
\* map is the one that insert, called for each pair in order, produces.
C10_ExtendAppendsFresh ==
    (op = "extend") =>
        /\ entries = old.entries \o Pick(arg_seq, FreshIn(old, arg_seq))
        /\ \A k \in KeySet(old.entries) :
              /\ get_index(self, k) = get_index(old, k)
              /\ get(self, k) = get(old, k)
        /\ \A i \in FreshIn(old, arg_seq) :
              get(self, arg_seq[i][1]) = Some(arg_seq[i][2])
        /\ self = InsertEach(old, arg_seq)

\* an extend that ignores a pair whose key is present and appends the next
C10_Witness ==
    /\ op = "extend"
    /\ Len(arg_seq) = 2
    /\ contains_key(old, arg_seq[1][1])
    /\ get(old, arg_seq[1][1]) # Some(arg_seq[1][2])
    /\ ~contains_key(old, arg_seq[2][1])

\* the pairs of a map, as a set
PairSet(m) == {iter(m)[i] : i \in 1..len(m)}

\* C11: two maps compare equal exactly when they have the same length and,
\* at every position, the same key and the same value; so two maps that hold
\* the same pairs in different orders are not equal.
C11_EqIsPositional ==
    (op = "eq") =>
        LET other == from_iter(arg_seq)
            ks == keys(self)
            vs == values(self)
            ko == keys(other)
            vo == values(other)
        IN
        /\ result <=> /\ Len(ks) = Len(ko)
                      /\ \A i \in 1..Len(ks) : ks[i] = ko[i] /\ vs[i] = vo[i]
        /\ (PairSet(self) = PairSet(other) /\ ks # ko) => ~result

\* a map was compared with one that holds the same pairs in another order
C11_Witness ==
    /\ op = "eq"
    /\ PairSet(self) = PairSet(from_iter(arg_seq))
    /\ keys(self) # keys(from_iter(arg_seq))
    /\ result = FALSE

\* C12: the hasher is fed each entry's key and then its value, in insertion
\* order; two maps that compare equal, whatever calls produced them, feed
\* the same sequence.
C12_HashFeedsEntriesInOrder ==
    /\ (op = "hash") =>
          /\ Len(result) = 2 * len(self)
          /\ \A i \in 1..len(self) :
                /\ result[2 * i - 1] = keys(self)[i]
                /\ result[2 * i] = values(self)[i]
    /\ (op = "eq" /\ result = TRUE) =>
          hash(self, <<>>) = hash(from_iter(arg_seq), <<>>)

\* a map of two entries was hashed
C12_Witness ==
    /\ op = "hash"
    /\ len(self) >= 2
    /\ Len(result) = 4

\* a map that is not empty compared equal to a collected one
C12_WitnessEqual ==
    /\ op = "eq"
    /\ result = TRUE
    /\ len(self) >= 2

\* C13: drain() yields the pairs of the map in insertion order, each once
\* when the caller takes them all; whether the caller takes all, some or
\* none of them, the map is empty afterwards: length 0, no entry, no
\* recorded position, every key absent.
C13_DrainYieldsInOrderAndEmpties ==
    (op = "drain") =>
        /\ Len(result) = arg_value
        /\ \A i \in 1..arg_value : result[i] = iter(old)[i]
        /\ arg_value = len(old) => result = iter(old)
        /\ len(self) = 0
        /\ is_empty(self)
        /\ entries = <<>>
        /\ DOMAIN key_to_index = {}
        /\ \A k \in Keys : ~contains_key(self, k) /\ get(self, k) = None

\* a drain of a map of three entries, dropped after one item
C13_Witness ==
    /\ op = "drain"
    /\ len(old) = 3
    /\ arg_value = 1

\* a drain of a map of two entries or more, taken to its end
C13_WitnessFull ==
    /\ op = "drain"
    /\ len(old) >= 2
    /\ arg_value = len(old)

\* C14: clear() empties the entry list and the lookup index: the length is
\* 0, is_empty() is true, every key is absent, and an insert of any key,
\* also one that was present before, succeeds and gets position 0.
C14_ClearEmpties ==
    (op = "clear") =>
        /\ len(self) = 0
        /\ is_empty(self)
        /\ entries = <<>>
        /\ DOMAIN key_to_index = {}
        /\ \A k \in Keys :
              /\ ~contains_key(self, k)
              /\ get(self, k) = None
              /\ get_index(self, k) = None
              /\ \A v \in Vals :
                    /\ insert(self, k, v).res = Ok
                    /\ get_index(insert(self, k, v).map, k) = Some(0)
                    /\ get(insert(self, k, v).map, k) = Some(v)

\* a clear of a map of two entries or more
C14_Witness ==
    /\ op = "clear"
    /\ len(old) >= 2

\* C15: map[&k] returns the value get(k) returns when k is present, and
\* panics when k is absent (never inserted, or removed, cleared or drained
\* and not inserted again) instead of returning a default value; the map is
\* the same afterwards.
C15_IndexPanicsOnAbsentKey ==
    (op = "index") =>
        /\ assoc[arg_key] # None =>
              /\ ~result.panic
              /\ Some(result.value) = get(self, arg_key)
              /\ Some(result.value) = assoc[arg_key]
        /\ assoc[arg_key] = None => result.panic
        /\ entries = old.entries
        /\ key_to_index = old.key_to_index

\* map[&k] of an absent key on a map that holds other keys
C15_Witness ==
    /\ op = "index"
    /\ assoc[arg_key] = None
    /\ result.panic
    /\ len(self) >= 1

\* map[&k] of a present key
C15_WitnessPresent ==
    /\ op = "index"
    /\ assoc[arg_key] # None
    /\ ~result.panic

\* "key: value" of the i-th entry
EntryText(i) == ToString(entries[i][1]) \o ": " \o ToString(entries[i][2])

\* the first n entries, each on a line of its own behind a newline
RECURSIVE EntryLines(_)
EntryLines(n) ==
    IF n = 0 THEN "" ELSE EntryLines(n - 1) \o "\n" \o EntryText(n)

\* the first n entries, separated by a comma and a space
RECURSIVE EntryList(_)
EntryList(n) ==
    IF n = 0 THEN ""
    ELSE IF n = 1 THEN EntryText(1)
    ELSE EntryList(n - 1) \o ", " \o EntryText(n)

\* C16: the Display text is SeqMap(n), n the length, followed for each entry
\* in insertion order by a newline and key: value; the Debug text is SeqMap(
\* followed by the entries as key: value in insertion order, separated by a
\* comma and a space, followed by ); an empty map gives SeqMap(0) and
\* SeqMap().
C16_Rendering ==
    /\ (op = "display") =>
          /\ result = "SeqMap(" \o ToString(len(self)) \o ")"
                          \o EntryLines(len(self))
          /\ entries = <<>> => result = "SeqMap(0)"
          /\ entries = <<<<2, 12>>>> => result = "SeqMap(1)\n2: 12"
    /\ (op = "debug") =>
          /\ result = "SeqMap(" \o EntryList(len(self)) \o ")"
          /\ entries = <<>> => result = "SeqMap()"
          /\ entries = <<<<2, 12>>, <<1, 11>>>> => result = "SeqMap(2: 12, 1: 11)"

\* the Debug text of a map of two entries or more
C16_Witness ==
    /\ op = "debug"
    /\ len(self) >= 2
    /\ entries[1][1] > entries[2][1]

\* the Display text of a map of two entries or more
C16_WitnessDisplay ==
    /\ op = "display"
    /\ len(self) >= 2

\* the position of key k in the sequence of keys ks (k occurs in ks)
PlaceOf(ks, k) == CHOOSE i \in 1..Len(ks) : ks[i] = k

\* the set of the keys of the sequence ks
Among(ks) == {ks[i] : i \in 1..Len(ks)}

\* C17: keys() lists the live keys in increasing order of their most recent
\* successful insertion; across a call, the keys that are present before and
\* after it keep their relative order in keys() (the keys of before that are
\* still there, and the keys of now that were there already, are the same
\* sequence); and a key whose insert returns Ok, a key inserted again after
\* its removal included, is placed after every key present at that time.
C17_KeysInOrderOfLastInsertion ==
    LET before == keys(old)
        now == keys(self)
    IN  /\ now = recent
        /\ (op # idle) =>
              SelectSeq(before, LAMBDA k : k \in Among(now))
                  = SelectSeq(now, LAMBDA k : k \in Among(before))
        /\ (op = "insert") =>
              \/ result # Ok
              \/ /\ now # <<>>
                 /\ now[Len(now)] = arg_key
                 /\ Among(before) = Among(SubSeq(now, 1, Len(now) - 1))

\* a key that remove had taken out is inserted again into a map of two keys
\* or more; it is the least of the keys and is placed behind them all
C17_Witness ==
    /\ op = "insert"
    /\ result = Ok
    /\ arg_key = gone
    /\ len(old) >= 2
    /\ \A b \in Among(keys(old)) : arg_key < b

\* a remove between two keys that stay
C17_WitnessRemove ==
    /\ op = "remove"
    /\ result # None
    /\ len(self) >= 2
    /\ PlaceOf(keys(old), arg_key) = 2

MutableAccess == {"get_mut", "values_mut", "iter_mut", "into_iter_mut"}

\* C18: writing values through get_mut, iter_mut, values_mut or the iteration
\* over &mut map leaves the sequence of keys, the length and get_index of
\* every key as they were; the value of an entry is what was written through
\* its reference (for get_mut only the entry of the key is written, for a
\* traversal the i-th value written goes to the i-th entry), and a value
\* that was not written, or written with what it was, is as before.
C18_WritesChangeOnlyValues ==
    (op \in MutableAccess) =>
        /\ keys(self) = keys(old)
        /\ len(self) = len(old)
        /\ \A k \in Keys : get_index(self, k) = get_index(old, k)
        /\ (op = "get_mut") =>
              /\ \A i \in 1..len(old) :
                    values(self)[i] = IF keys(old)[i] = arg_key
                                      THEN arg_value ELSE values(old)[i]
              /\ result = get(old, arg_key)
        /\ (op # "get_mut") =>
              /\ values(self) = arg_seq
              /\ \A i \in 1..len(old) :
                    arg_seq[i] = values(old)[i] => iter(self)[i] = iter(old)[i]

\* a traversal of three entries that writes a new value to the first, not
\* to the last, the values being different before
C18_Witness ==
    /\ op = "iter_mut"
    /\ len(old) = 3
    /\ values(old)[1] # values(old)[3]
    /\ values(self)[1] # values(old)[1]
    /\ values(self)[3] = values(old)[3]

\* a write through get_mut to the second of three entries
C18_WitnessGetMut ==
    /\ op = "get_mut"
    /\ len(old) = 3
    /\ keys(old)[2] = arg_key
    /\ values(old)[2] # arg_value

\* C19: the items of into_iter are the entries of the map in their order,
\* so that every live key comes exactly once, with its value; the items of
\* into_keys and of into_values are the keys and the values of those entries
\* in the same order.
C19_ConsumingIterationInOrder ==
    /\ (op = "into_iter") =>
          /\ result = iter(old)
          /\ Len(result) = len(old)
          /\ \A k \in Keys :
                contains_key(old, k) =>
                    /\ Cardinality({i \in 1..Len(result) : result[i][1] = k}) = 1
                    /\ \E i \in 1..Len(result) :
                          /\ result[i] = <<k, get(old, k)[1]>>
                          /\ get_index(old, k) = Some(i - 1)
          /\ \A i \in 1..Len(result) : contains_key(old, result[i][1])
    /\ (op = "into_keys") =>
          /\ Len(result) = len(old)
          /\ \A i \in 1..Len(result) : result[i] = iter(old)[i][1]
    /\ (op = "into_values") =>
          /\ Len(result) = len(old)
          /\ \A i \in 1..Len(result) : result[i] = iter(old)[i][2]

\* the consuming iteration of a map of three entries whose keys are not in
\* key order
C19_Witness ==
    /\ op = "into_iter"
    /\ Len(result) = 3
    /\ result[1][1] > result[2][1]

\* into_keys of a map of two entries or more
C19_WitnessKeys ==
    /\ op = "into_keys"
    /\ Len(result) >= 2
    /\ result[1] > result[2]

\* into_values of a map whose values differ
C19_WitnessValues ==
    /\ op = "into_values"
    /\ Len(result) >= 2
    /\ result[1] # result[2]

\* C20: the map and the reference list, run side by side, answer every
\* query alike: get_index(k) is the place of k in the list, get(k) and
\* contains_key(k) are what the search from the front finds, len() and
\* is_empty() are the length of the list, keys(), values() and iter() are the
\* list itself, and insert and remove return what the reference returns.
C20_AgreesWithReference ==
    LET m == self IN
    /\ Cardinality({ref[i][1] : i \in 1..Len(ref)}) = Len(ref)
    /\ len(m) = Len(ref)
    /\ is_empty(m) <=> (ref = <<>>)
    /\ \A k \in Keys : get_index(m, k) = ref_get_index(ref, k)
    /\ \A k \in Keys : contains_key(m, k) <=> ref_contains_key(ref, k)
    /\ \A k \in Keys : get(m, k) = ref_get(ref, k)
    /\ iter(m) = ref
    /\ keys(m) = [i \in 1..Len(ref) |-> ref[i][1]]
    /\ values(m) = [i \in 1..Len(ref) |-> ref[i][2]]
    /\ (op \in {"insert", "remove"}) => result = ref_result

\* a remove in front of two entries that stay: the places of both change
C20_Witness ==
    /\ op = "remove"
    /\ result # None
    /\ Len(ref) = 2
    /\ get_index(old, arg_key) = Some(0)
    /\ ref[1][1] > ref[2][1]

\* an insert of a key that is there: both sides refuse
C20_WitnessRefused ==
    /\ op = "insert"
    /\ ref_result = Err(KeyAlreadyExists)
    /\ Len(ref) = 3

\* no call of get, get_mut, insert or remove on m fails, whatever its
\* arguments, and index fails for the absent keys only
NoFailure(m) ==
    \A k \in Keys :
        /\ ~get_panics(m, k)
        /\ ~get_mut_panics(m, k)
        /\ \A v \in Vals : ~insert_underflows(m, k, v)
        /\ ~remove_panics(m, k)
        /\ ~remove_skips(m, k)
        /\ contains_key(m, k) => ~index(m, k).panic

\* C21: in every reachable state every position stored in key_to_index is
\* less than entries.len(), so that get, get_mut and indexing with a present
\* key are in bounds; and a remove of a key at position i finds every key of
\* entries[i+1..] in key_to_index with a position of at least 1, so that the
\* decrement is applied to each and does not go below 0. No operation but
\* indexing with an absent key fails.
C21_NoAbnormalFailure ==
    LET m == self IN
    /\ \A k \in DOMAIN m.key_to_index :
          /\ m.key_to_index[k] >= 0
          /\ m.key_to_index[k] < Len(m.entries)
    /\ NoFailure(m)
    /\ (op = "remove") =>
          \/ result = None
          \/ LET i == old.key_to_index[arg_key] IN
             /\ i < Len(old.entries)
             /\ \A j \in (i + 2)..Len(old.entries) :
                   /\ old.entries[j][1] \in DOMAIN old.key_to_index
                   /\ old.entries[j][1] # arg_key
                   /\ old.key_to_index[old.entries[j][1]] >= 1
                   /\ m.key_to_index[old.entries[j][1]]
                          = old.key_to_index[old.entries[j][1]] - 1
    /\ (op = "index") => (result.panic <=> ~contains_key(old, arg_key))

\* a remove of the first of three entries: the loop has decremented the
\* positions 1 and 2 of the two keys behind it
C21_Witness ==
    /\ op = "remove"
    /\ result # None
    /\ Len(old.entries) = 3
    /\ old.key_to_index[arg_key] = 0
    /\ key_to_index[entries[1][1]] = 0
    /\ key_to_index[entries[2][1]] = 1

\* a get_mut of the key at the last position of a full map
C21_WitnessLast ==
    /\ op = "get_mut"
    /\ result # None
    /\ Len(entries) = NumKeys
    /\ key_to_index[arg_key] = Len(entries) - 1

====
